---- MODULE Spec2Model ----
(***************************************************************************)
(* Model of the Smart Second Brain backend (src/main.py, src/schemas.py):  *)
(* the heuristic folder router, the ingest handler and the list handler,   *)
(* over an abstract document collection with insert and query.             *)
(*                                                                         *)
(* Python values are tagged records: None, str (a sequence of one-letter   *)
(* strings), list, bool, dict and the store's ObjectId handle.  A document *)
(* (a Python dict) is a function from its keys to such values.             *)
(***************************************************************************)
EXTENDS Integers, Sequences, FiniteSets, Bags, TLC

VARIABLES
    store,      \* the "thought" collection: its documents in insertion order
    next_oid,   \* the next ObjectId the collection hands out
    pending,    \* requests inside a handler, before their store call (a bag)
    req,        \* the request of the handler that ran last
    resp,       \* the HTTP response of that handler
    calls,      \* how often that handler invoked insert and query
    exc,        \* the exception the store raised in that handler (or None)
    acked,      \* the successful ingests so far, in order: what was sent, routed, answered
    rin,        \* the router's last input <<text, tags>>
    rout        \* the router's last output

vars == <<store, next_oid, pending, req, resp, calls, exc, acked, rin, rout>>

-----------------------------------------------------------------------------
(* Bounds of the model *)

MaxFrags == 2       \* a content is at most this many fragments long
MaxTags == 1        \* a tag list holds at most this many tags
MaxStore == 2       \* documents in the collection
MaxInFlight == 2    \* requests inside a handler at once

-----------------------------------------------------------------------------
(* Python values *)

None == [t |-> "None"]
Str(s) == [t |-> "str", v |-> s]
PyList(s) == [t |-> "list", items |-> s]
PyBool(b) == [t |-> "bool", b |-> b]
PyDict(d) == [t |-> "dict", d |-> d]
ObjectId(n) == [t |-> "ObjectId", n |-> n]

\* Python truth value: None, "", [] and {} are falsy; an ObjectId is an
\* ordinary object and always truthy.
Truthy(x) ==
    CASE x.t = "None" -> FALSE
      [] x.t = "str" -> Len(x.v) > 0
      [] x.t = "list" -> Len(x.items) > 0
      [] x.t = "bool" -> x.b
      [] x.t = "dict" -> DOMAIN x.d # {}
      [] OTHER -> TRUE

\* x or y
PyOr(x, y) == IF Truthy(x) THEN x ELSE y

Uppers ==
    <<"A", "B", "C", "D", "E", "F", "G", "H", "I", "J", "K", "L", "M",
      "N", "O", "P", "Q", "R", "S", "T", "U", "V", "W", "X", "Y", "Z">>

Lowers ==
    <<"a", "b", "c", "d", "e", "f", "g", "h", "i", "j", "k", "l", "m",
      "n", "o", "p", "q", "r", "s", "t", "u", "v", "w", "x", "y", "z">>

LowerChar(c) ==
    IF \E i \in 1..Len(Uppers) : Uppers[i] = c
    THEN Lowers[CHOOSE i \in 1..Len(Uppers) : Uppers[i] = c]
    ELSE c

\* str.lower() on the letters of a string
Lower(s) == [i \in 1..Len(s) |-> LowerChar(s[i])]

\* kw in s: kw occurs in s as a contiguous run of letters
Contains(s, kw) ==
    \E i \in 0..(Len(s) - Len(kw)) : SubSeq(s, i + 1, i + Len(kw)) = kw

-----------------------------------------------------------------------------
(* The words of the program *)

w_todo == <<"t", "o", "d", "o">>
w_task == <<"t", "a", "s", "k">>
w_next == <<"n", "e", "x", "t">>
w_due == <<"d", "u", "e">>
w_deadline == <<"d", "e", "a", "d", "l", "i", "n", "e">>
w_idea == <<"i", "d", "e", "a">>
w_concept == <<"c", "o", "n", "c", "e", "p", "t">>
w_brainstorm == <<"b", "r", "a", "i", "n", "s", "t", "o", "r", "m">>
w_inspiration == <<"i", "n", "s", "p", "i", "r", "a", "t", "i", "o", "n">>
w_meeting == <<"m", "e", "e", "t", "i", "n", "g">>
w_call == <<"c", "a", "l", "l">>
w_note == <<"n", "o", "t", "e">>
w_summary == <<"s", "u", "m", "m", "a", "r", "y">>
w_article == <<"a", "r", "t", "i", "c", "l", "e">>
w_read == <<"r", "e", "a", "d">>
w_bookmark == <<"b", "o", "o", "k", "m", "a", "r", "k">>
w_link == <<"l", "i", "n", "k">>
w_notes == <<"n", "o", "t", "e", "s">>

w_inbox == <<"i", "n", "b", "o", "x">>
w_reads == <<"r", "e", "a", "d", "s">>
w_ideas == <<"i", "d", "e", "a", "s">>
w_tasks == <<"t", "a", "s", "k", "s">>

w_text == <<"t", "e", "x", "t">>
w_image == <<"i", "m", "a", "g", "e">>
w_voice == <<"v", "o", "i", "c", "e">>

-----------------------------------------------------------------------------
(* The router *)

\* any(t in text_l for t in kws)
AnyIn(text_l, kws) == \E kw \in kws : Contains(text_l, kw)

smart_route_folder_ideas_first(text, tags) ==
    LET text_l == Lower(PyOr(text, Str(<<>>)).v)
        tagl == PyOr(tags, PyList(<<>>)).items
        tagset == {Lower(tagl[i].v) : i \in 1..Len(tagl)}
    IN  IF AnyIn(text_l, {w_idea, w_concept, w_brainstorm, w_inspiration}) \/ w_idea \in tagset
        THEN Str(w_ideas)
        ELSE IF AnyIn(text_l, {w_todo, w_task, w_next, w_due, w_deadline}) \/ w_task \in tagset
        THEN Str(w_tasks)
        ELSE IF AnyIn(text_l, {w_meeting, w_call, w_note, w_summary}) \/ w_notes \in tagset
        THEN Str(w_notes)
        ELSE IF AnyIn(text_l, {w_article, w_read, w_bookmark, w_link}) \/ w_read \in tagset
        THEN Str(w_reads)
        ELSE Str(w_inbox)

smart_route_folder_no_default(text, tags) ==
    LET text_l == Lower(PyOr(text, Str(<<>>)).v)
        tagl == PyOr(tags, PyList(<<>>)).items
        tagset == {Lower(tagl[i].v) : i \in 1..Len(tagl)}
    IN  IF AnyIn(text_l, {w_todo, w_task, w_next, w_due, w_deadline}) \/ w_task \in tagset
        THEN Str(w_tasks)
        ELSE IF AnyIn(text_l, {w_idea, w_concept, w_brainstorm, w_inspiration}) \/ w_idea \in tagset
        THEN Str(w_ideas)
        ELSE IF AnyIn(text_l, {w_meeting, w_call, w_note, w_summary}) \/ w_notes \in tagset
        THEN Str(w_notes)
        ELSE IF AnyIn(text_l, {w_article, w_read, w_bookmark, w_link}) \/ w_read \in tagset
        THEN Str(w_reads)
        ELSE None

smart_route_folder(text, tags) ==
    LET text_l == Lower(PyOr(text, Str(<<>>)).v)
        tagl == PyOr(tags, PyList(<<>>)).items
        tagset == {Lower(tagl[i].v) : i \in 1..Len(tagl)}
    IN  IF AnyIn(text_l, {w_todo, w_task, w_next, w_due, w_deadline}) \/ w_task \in tagset
        THEN Str(w_tasks)
        ELSE IF AnyIn(text_l, {w_idea, w_concept, w_brainstorm, w_inspiration}) \/ w_idea \in tagset
        THEN Str(w_ideas)
        ELSE IF AnyIn(text_l, {w_meeting, w_call, w_note, w_summary}) \/ w_notes \in tagset
        THEN Str(w_notes)
        ELSE IF AnyIn(text_l, {w_article, w_read, w_bookmark, w_link}) \/ w_read \in tagset
        THEN Str(w_reads)
        ELSE Str(w_inbox)

\* The keys of the folders get_folders lists
get_folders == {Str(w_inbox), Str(w_ideas), Str(w_tasks), Str(w_notes), Str(w_reads)}

-----------------------------------------------------------------------------
(* Documents *)

w_active == <<"a", "c", "t", "i", "v", "e">>
w_heuristic_v0 == <<"h", "e", "u", "r", "i", "s", "t", "i", "c", "-", "v", "0">>
w_unsupported == <<"U", "n", "s", "u", "p", "p", "o", "r", "t", "e", "d", " ",
                   "m", "o", "d", "a", "l", "i", "t", "y">>

\* d.get(k)
Get(d, k) == IF k \in DOMAIN d THEN d[k] ELSE None

\* d without the key k (d.pop(k) leaves this behind)
Without(d, k) == [x \in DOMAIN d \ {k} |-> d[x]]

\* The Thought model as the dict that is stored: the given fields and the
\* defaults of the others
Thought(title, content, modality, source_url, image_data_url, tags, folder, meta) ==
    [ title |-> title,
      content |-> content,
      modality |-> modality,
      source_url |-> source_url,
      image_data_url |-> image_data_url,
      tags |-> tags,
      folder |-> folder,
      meta |-> meta,
      pinned |-> PyBool(FALSE),
      status |-> Str(w_active),
      created_at |-> None,
      updated_at |-> None ]

HexDigits ==
    <<"0", "1", "2", "3", "4", "5", "6", "7", "8", "9", "a", "b", "c", "d", "e", "f">>

RECURSIVE Hex(_)
Hex(n) ==
    IF n < Len(HexDigits)
    THEN <<HexDigits[n + 1]>>
    ELSE Hex(n \div Len(HexDigits)) \o <<HexDigits[(n % Len(HexDigits)) + 1]>>

Exception(msg) == [t |-> "Exception", msg |-> msg]

\* str(x): an ObjectId renders as hexadecimal digits, an exception as its message
PyStr(x) ==
    CASE x.t = "ObjectId" -> Str(Hex(x.n))
      [] x.t = "Exception" -> x.msg
      [] OTHER -> x

-----------------------------------------------------------------------------
(* The document collection (database.create_document, database.get_documents) *)

\* insert: either the store raises `fault` and writes nothing, or it gives the
\* document a fresh ObjectId, appends it and returns the id as a string
create_document(docs, oid, doc, fault) ==
    IF fault # None
    THEN [ok |-> FALSE, exc |-> fault, docs |-> docs, oid |-> oid]
    ELSE [ok |-> TRUE, id |-> PyStr(ObjectId(oid)),
          docs |-> Append(docs, ("_id" :> ObjectId(oid)) @@ doc), oid |-> oid + 1]

Matches(d, flt) == \A k \in DOMAIN flt : Get(d, k) = flt[k]

\* query: either the store raises `fault`, or it returns copies of the first
\* `limit` documents that match the filter, in insertion order
get_documents(docs, flt, limit, fault) ==
    IF fault # None
    THEN [ok |-> FALSE, exc |-> fault]
    ELSE LET Test(d) == Matches(d, flt)
             found == SelectSeq(docs, Test)
         IN  [ok |-> TRUE,
              docs |-> SubSeq(found, 1, IF limit < Len(found) THEN limit ELSE Len(found))]

-----------------------------------------------------------------------------
(* POST /api/ingest *)

Modalities == {Str(w_text), Str(w_image), Str(w_link), Str(w_voice)}

HTTPException(status_code, detail) == [status |-> status_code, detail |-> detail]

\* IngestDoc with folder=folder left out of the Thought: the field keeps its default
IngestDoc_no_folder(payload, folder) ==
    Thought(payload.title, payload.content, payload.modality, payload.source_url,
            payload.image_data_url, PyOr(payload.tags, PyList(<<>>)), None,
            PyDict("routed_by" :> Str(w_heuristic_v0)))

\* IngestDoc with title and content passed in each other's place
IngestDoc_swapped(payload, folder) ==
    Thought(payload.content, payload.title, payload.modality, payload.source_url,
            payload.image_data_url, PyOr(payload.tags, PyList(<<>>)), folder,
            PyDict("routed_by" :> Str(w_heuristic_v0)))

\* The document ingest builds from the payload and the routed folder
IngestDoc(payload, folder) ==
    Thought(payload.title, payload.content, payload.modality, payload.source_url,
            payload.image_data_url, PyOr(payload.tags, PyList(<<>>)), folder,
            PyDict("routed_by" :> Str(w_heuristic_v0)))

\* ingest_prepare without the modality check
ingest_prepare_no_check(payload) ==
    LET folder == smart_route_folder(payload.content, payload.tags)
    IN  [rejected |-> FALSE, folder |-> folder, doc |-> IngestDoc(payload, folder)]

\* Lines 90-103: the modality check, then routing and the document
ingest_prepare(payload) ==
    IF payload.modality \notin Modalities
    THEN [rejected |-> TRUE, resp |-> HTTPException(400, Str(w_unsupported))]
    ELSE LET folder == smart_route_folder(payload.content, payload.tags)
         IN  [rejected |-> FALSE, folder |-> folder, doc |-> IngestDoc(payload, folder)]

\* ingest_persist cutting the message short, as test_database does with str(e)[:80]
ingest_persist_truncated(prep, docs, oid, fault) ==
    LET r == create_document(docs, oid, prep.doc, fault)
    IN  IF r.ok
        THEN [resp |-> [status |-> 200,
                        body |-> [ok |-> TRUE, id |-> r.id, folder |-> prep.folder]],
              docs |-> r.docs, oid |-> r.oid, exc |-> None,
              calls |-> [insert |-> 1, query |-> 0]]
        ELSE [resp |-> HTTPException(500, Str(SubSeq(PyStr(r.exc).v, 1, 4))),
              docs |-> r.docs, oid |-> r.oid, exc |-> r.exc,
              calls |-> [insert |-> 1, query |-> 0]]

\* ingest_persist calling create_document a second time after the first succeeded
ingest_persist_twice(prep, docs, oid, fault) ==
    LET r1 == create_document(docs, oid, prep.doc, fault)
        r == IF r1.ok THEN create_document(r1.docs, r1.oid, prep.doc, fault) ELSE r1
    IN  IF r.ok
        THEN [resp |-> [status |-> 200,
                        body |-> [ok |-> TRUE, id |-> r.id, folder |-> prep.folder]],
              docs |-> r.docs, oid |-> r.oid, exc |-> None,
              calls |-> [insert |-> 2, query |-> 0]]
        ELSE [resp |-> HTTPException(500, PyStr(r.exc)),
              docs |-> r.docs, oid |-> r.oid, exc |-> r.exc,
              calls |-> [insert |-> 1, query |-> 0]]

\* Lines 105-109: one insert; its id and the folder on success, a 500 carrying
\* str(e) when the store raises
ingest_persist(prep, docs, oid, fault) ==
    LET r == create_document(docs, oid, prep.doc, fault)
    IN  IF r.ok
        THEN [resp |-> [status |-> 200,
                        body |-> [ok |-> TRUE, id |-> r.id, folder |-> prep.folder]],
              docs |-> r.docs, oid |-> r.oid, exc |-> None,
              calls |-> [insert |-> 1, query |-> 0]]
        ELSE [resp |-> HTTPException(500, PyStr(r.exc)),
              docs |-> r.docs, oid |-> r.oid, exc |-> r.exc,
              calls |-> [insert |-> 1, query |-> 0]]

NoCalls == [insert |-> 0, query |-> 0]

\* The whole handler
ingest_thought(payload, docs, oid, fault) ==
    LET prep == ingest_prepare(payload)
    IN  IF prep.rejected
        THEN [resp |-> prep.resp, docs |-> docs, oid |-> oid, exc |-> None,
              calls |-> NoCalls, routed |-> None]
        ELSE [routed |-> prep.folder] @@ ingest_persist(prep, docs, oid, fault)

-----------------------------------------------------------------------------
(* GET /api/thoughts *)

DefaultLimit == 50

\* NormalizeId without the conversion
NormalizeId_keep(d) == d

\* Lines 119-120: the ObjectId leaves under the key id, as a string
NormalizeId(d) ==
    IF Truthy(Get(d, "_id"))
    THEN ("id" :> PyStr(d["_id"])) @@ Without(d, "_id")
    ELSE d

\* Line 115: the filter handed to the store
ListFilter(folder) == IF Truthy(folder) THEN ("folder" :> folder) ELSE <<>>

list_thoughts(folder, limit, docs, fault) ==
    LET r == get_documents(docs, ListFilter(folder), limit, fault)
    IN  IF r.ok
        THEN [resp |-> [status |-> 200,
                        body |-> [ok |-> TRUE,
                                  items |-> [i \in 1..Len(r.docs) |-> NormalizeId(r.docs[i])]]],
              exc |-> None, calls |-> [insert |-> 0, query |-> 1]]
        ELSE [resp |-> HTTPException(500, PyStr(r.exc)),
              exc |-> r.exc, calls |-> [insert |-> 0, query |-> 1]]

-----------------------------------------------------------------------------
(* The inputs the router is run on *)

Fragments ==
    { <<"T", "O", "D", "O">>, w_task, w_next, w_due, w_deadline \o <<"s">>,
      <<"I", "d", "e", "a">>, w_concept, w_brainstorm, w_inspiration,
      <<"M", "e", "e", "t", "i", "n", "g">>, w_call, w_note, w_summary,
      w_article, w_read, w_bookmark, <<"L", "I", "N", "K">>,
      <<"t", "o">>, <<"d", "o">>, <<"x", "y", "z">>, <<" ">> }

RECURSIVE Concats(_)
\* the letter sequences made of exactly n fragments
Concats(n) ==
    IF n = 0 THEN {<<>>} ELSE {f \o s : f \in Fragments, s \in Concats(n - 1)}

Contents == {None} \cup {Str(s) : s \in UNION {Concats(n) : n \in 0..MaxFrags}}

TagPool ==
    { Str(w_task), Str(<<"I", "d", "e", "a">>), Str(w_notes), Str(<<"R", "E", "A", "D">>),
      Str(w_note), Str(<<"m", "i", "s", "c">>) }

RECURSIVE TagSeqs(_)
TagSeqs(n) ==
    IF n = 0 THEN {<<>>} ELSE {<<t>> \o s : t \in TagPool, s \in TagSeqs(n - 1)}

TagLists == {None} \cup {PyList(s) : s \in UNION {TagSeqs(n) : n \in 0..MaxTags}}

-----------------------------------------------------------------------------
(* Initial state *)

NoRequest == [op |-> "none"]
NoResponse == [status |-> 0]

Init ==
    /\ store = <<>>
    /\ next_oid = 1
    /\ pending = EmptyBag
    /\ req = NoRequest
    /\ resp = NoResponse
    /\ calls = NoCalls
    /\ exc = None
    /\ acked = <<>>
    /\ rin = <<None, None>>
    /\ rout = None

\* The router's input is drawn first; nothing else has happened
InitRouter ==
    /\ store = <<>>
    /\ next_oid = 1
    /\ pending = EmptyBag
    /\ req = NoRequest
    /\ resp = NoResponse
    /\ calls = NoCalls
    /\ exc = None
    /\ acked = <<>>
    /\ rin \in Contents \X TagLists
    /\ rout = [t |-> "unset"]

\* One call of the router, on the input drawn
Route ==
    /\ rout = [t |-> "unset"]
    /\ rout' = smart_route_folder(rin[1], rin[2])
    /\ UNCHANGED <<store, next_oid, pending, req, resp, calls, exc, acked, rin>>

NextRouter == Route

SpecRouter == InitRouter /\ [][NextRouter]_vars

-----------------------------------------------------------------------------
(* The requests the handlers are run on *)

Payload(title, content, modality, source_url, image_data_url, tags) ==
    [ title |-> title, content |-> content, modality |-> modality,
      source_url |-> source_url, image_data_url |-> image_data_url, tags |-> tags ]

s_xyz == Str(<<"x", "y", "z">>)
s_todo_idea == Str(<<"T", "O", "D", "O", " ", "I", "d", "e", "a">>)
s_meeting_note == Str(<<"M", "e", "e", "t", "i", "n", "g", " ">> \o w_note)
s_url == Str(<<"h", "t", "t", "p", ":", "/", "/", "a">>)
s_data == Str(<<"d", "a", "t", "a", ":", "x">>)

p_task == Payload(None, s_todo_idea, Str(w_text), None, None, None)
p_plain == Payload(None, s_xyz, Str(w_text), None, None, None)
p_tagged == Payload(None, s_xyz, Str(w_text), None, None, PyList(<<Str(<<"R", "E", "A", "D">>)>>))
p_link == Payload(s_xyz, s_meeting_note, Str(w_link), s_url, None, PyList(<<>>))
p_image == Payload(None, None, Str(w_image), None, s_data, None)
p_voice == Payload(s_xyz, Str(<<>>), Str(w_voice), None, None, PyList(<<Str(<<"I", "d", "e", "a">>)>>))
p_video == Payload(None, s_todo_idea, Str(<<"v", "i", "d", "e", "o">>), None, None, None)
p_upper == Payload(None, s_xyz, Str(<<"T", "E", "X", "T">>), None, None, None)
p_blank == Payload(None, None, Str(<<>>), None, None, PyList(<<>>))
p_full == Payload(s_xyz, s_todo_idea, Str(w_link), s_url, s_data, PyList(<<Str(<<"R", "E", "A", "D">>)>>))

Payloads == {p_task, p_plain, p_tagged, p_link, p_image, p_voice, p_video, p_upper, p_blank}

ListArgs ==
    {None, Str(<<>>), Str(w_inbox), Str(w_tasks), s_xyz} \X {-1, 0, 1, DefaultLimit}

e_down == Exception(Str(<<"d", "o", "w", "n">>))
e_rejected == Exception(Str(<<"r", "e", "j", "e", "c", "t", "e", "d">>))
StoreFaults == {e_down, e_rejected}

-----------------------------------------------------------------------------
(* Handlers run one after another *)

Answer(rq, out) ==
    /\ req' = rq
    /\ resp' = out.resp
    /\ calls' = out.calls
    /\ exc' = out.exc

\* One POST /api/ingest, start to end; the collection holds at most `cap` documents
Ingest(payload, fault, cap) ==
    LET out == ingest_thought(payload, store, next_oid, fault)
    IN  /\ Len(out.docs) <= cap
        /\ store' = out.docs
        /\ next_oid' = out.oid
        /\ Answer([op |-> "ingest", payload |-> payload], out)
        /\ acked' = IF out.resp.status = 200
                    THEN Append(acked, [payload |-> payload, routed |-> out.routed,
                                        id |-> out.resp.body.id,
                                        folder |-> out.resp.body.folder])
                    ELSE acked
        /\ UNCHANGED <<pending, rin, rout>>

\* One GET /api/thoughts, start to end
List(folder, limit, fault) ==
    LET out == list_thoughts(folder, limit, store, fault)
    IN  /\ Answer([op |-> "list", folder |-> folder, limit |-> limit], out)
        /\ UNCHANGED <<store, next_oid, acked, pending, rin, rout>>

Next ==
    \/ \E p \in Payloads, f \in {None} \cup StoreFaults : Ingest(p, f, MaxStore)
    \/ \E a \in ListArgs, f \in {None} \cup StoreFaults : List(a[1], a[2], f)

Spec == Init /\ [][Next]_vars

-----------------------------------------------------------------------------
(* Handlers that overlap: a request enters its handler, and reaches the     *)
(* store in a later step, with other requests' steps in between             *)

ConcPayloads == {p_task, p_plain, p_video}
ConcListArgs == {<<None, DefaultLimit>>, <<Str(w_tasks), 1>>}
ConcFaults == {None, e_down}

InFlight == BagCardinality(pending)

IngestBegin(payload) ==
    LET prep == ingest_prepare(payload)
        rq == [op |-> "ingest", payload |-> payload]
    IN  /\ InFlight < MaxInFlight
        /\ IF prep.rejected
           THEN /\ Answer(rq, [resp |-> prep.resp, calls |-> NoCalls, exc |-> None])
                /\ UNCHANGED pending
           ELSE /\ pending' = pending (+) SetToBag({[rq |-> rq, prep |-> prep]})
                /\ UNCHANGED <<req, resp, calls, exc>>
        /\ UNCHANGED <<store, next_oid, acked, rin, rout>>

IngestFinish(r, fault) ==
    LET out == ingest_persist(r.prep, store, next_oid, fault)
    IN  /\ r.rq.op = "ingest"
        /\ Len(out.docs) <= MaxStore
        /\ pending' = pending (-) SetToBag({r})
        /\ store' = out.docs
        /\ next_oid' = out.oid
        /\ Answer(r.rq, out)
        /\ acked' = IF out.resp.status = 200
                    THEN Append(acked, [payload |-> r.rq.payload, routed |-> r.prep.folder,
                                        id |-> out.resp.body.id,
                                        folder |-> out.resp.body.folder])
                    ELSE acked
        /\ UNCHANGED <<rin, rout>>

ListBegin(folder, limit) ==
    /\ InFlight < MaxInFlight
    /\ pending' = pending (+) SetToBag({[rq |-> [op |-> "list", folder |-> folder, limit |-> limit]]})
    /\ UNCHANGED <<store, next_oid, req, resp, calls, exc, acked, rin, rout>>

ListFinish(r, fault) ==
    /\ r.rq.op = "list"
    /\ pending' = pending (-) SetToBag({r})
    /\ Answer(r.rq, list_thoughts(r.rq.folder, r.rq.limit, store, fault))
    /\ UNCHANGED <<store, next_oid, acked, rin, rout>>

NextConc ==
    \/ \E p \in ConcPayloads : IngestBegin(p)
    \/ \E r \in BagToSet(pending), f \in ConcFaults : IngestFinish(r, f)
    \/ \E a \in ConcListArgs : ListBegin(a[1], a[2])
    \/ \E r \in BagToSet(pending), f \in ConcFaults : ListFinish(r, f)

SpecConc == Init /\ [][NextConc]_vars

-----------------------------------------------------------------------------
(* A collection that grows past the default limit: the first BulkFill       *)
(* documents are all ingests of p_full                                      *)

BulkFill == DefaultLimit - 1
BulkPayloads == {p_full, p_link, p_image, p_video}
BulkListArgs ==
    {<<Str(w_tasks), DefaultLimit>>, <<Str(w_inbox), DefaultLimit>>,
     <<Str(w_notes), DefaultLimit>>, <<None, 1>>}

NextBulk ==
    \/ \E p \in BulkPayloads, f \in ConcFaults :
          /\ Len(store) < BulkFill => p \in {p_full, p_video}
          /\ Ingest(p, f, DefaultLimit + 2)
    \/ \E a \in BulkListArgs, f \in ConcFaults : List(a[1], a[2], f)

SpecBulk == Init /\ [][NextBulk]_vars

-----------------------------------------------------------------------------
(* Properties *)

RegistryKeys == {Str(w_inbox), Str(w_reads), Str(w_notes), Str(w_ideas), Str(w_tasks)}
AllowedModalities == {Str(w_text), Str(w_image), Str(w_link), Str(w_voice)}

IsPlainString(x) == x.t = "str"

ListAnswered == req.op = "list" /\ resp.status = 200
Items == resp.body.items

\* C1: every persisted Thought's folder is one of the five registry keys, and
\* it is the folder the router computed when that Thought was ingested.
C1_FolderInRegistry ==
    \A i \in 1..Len(store) :
        /\ store[i]["folder"] \in RegistryKeys
        /\ store[i]["folder"] \in get_folders
        /\ \E k \in 1..Len(acked) :
              /\ acked[k].id = PyStr(store[i]["_id"])
              /\ acked[k].routed = store[i]["folder"]

\* Two Thoughts of different folders are stored, and the last ingest failed in the store
C1_Witness ==
    /\ \E i, j \in 1..Len(store) : store[i]["folder"] # store[j]["folder"]
    /\ req.op = "ingest"
    /\ resp.status = 500

\* The rules of the router, in their order
Rules ==
    << [folder |-> Str(w_tasks), keywords |-> {w_todo, w_task, w_next, w_due, w_deadline},
        tag |-> w_task],
       [folder |-> Str(w_ideas), keywords |-> {w_idea, w_concept, w_brainstorm, w_inspiration},
        tag |-> w_idea],
       [folder |-> Str(w_notes), keywords |-> {w_meeting, w_call, w_note, w_summary},
        tag |-> w_notes],
       [folder |-> Str(w_reads), keywords |-> {w_article, w_read, w_bookmark, w_link},
        tag |-> w_read] >>

RuleHolds(r, text, tags) ==
    LET c == IF text = None THEN <<>> ELSE Lower(text.v)
        ts == IF tags = None THEN {} ELSE {Lower(tags.items[i].v) : i \in 1..Len(tags.items)}
    IN  \/ \E kw \in r.keywords : Contains(c, kw)
        \/ r.tag \in ts

FirstRule(text, tags) ==
    LET hit == {i \in 1..Len(Rules) : RuleHolds(Rules[i], text, tags)}
    IN  IF hit = {}
        THEN Str(w_inbox)
        ELSE Rules[CHOOSE i \in hit : \A j \in hit : i <= j].folder

Routed == rout.t # "unset"

\* C2: the router is total: whatever the content and the tags, absent and empty
\* included, it returns a key of the folder registry; with both absent, inbox.
C2_RouterTotal ==
    Routed =>
        /\ rout \in RegistryKeys
        /\ rout \in get_folders
        /\ (rin = <<None, None>> => rout = Str(w_inbox))

C2_Witness == Routed /\ rin = <<None, None>> /\ rout = Str(w_inbox)

\* C3: the router returns the folder of the first rule, in the order tasks,
\* ideas, notes, reads, whose condition holds, and inbox when none holds; a
\* content matching a tasks keyword and an ideas keyword goes to tasks.
C3_FirstRuleWins == Routed => rout = FirstRule(rin[1], rin[2])

C3_Witness ==
    /\ Routed
    /\ rin[1] # None
    /\ \E kw \in Rules[1].keywords : Contains(Lower(rin[1].v), kw)
    /\ \E kw \in Rules[2].keywords : Contains(Lower(rin[1].v), kw)
    /\ rout = Str(w_tasks)

\* C4: an ingest whose modality is not text, image, link or voice ends in the
\* validation error, without an insert and with the collection as it was.
C4_InvalidModalityRejected ==
    [][(req'.op = "ingest" /\ req'.payload.modality \notin AllowedModalities) =>
          /\ resp'.status = 400
          /\ calls'.insert = 0
          /\ store' = store]_vars

\* An invalid modality was rejected while Thoughts were stored
C4_Witness ==
    /\ req.op = "ingest"
    /\ req.payload.modality \notin AllowedModalities
    /\ resp.status = 400
    /\ Len(store) > 0

\* C5: when the store fails in an ingest or a list, the call ends in an error
\* carrying the store's message unchanged, after exactly one insert (ingest)
\* or one query (list), with no success body, and the collection is unchanged.
C5_StoreFailureSurfaces ==
    [][exc' # None =>
          /\ resp'.status = 500
          /\ resp'.detail = exc'.msg
          /\ DOMAIN resp' = {"status", "detail"}
          /\ calls' = IF req'.op = "ingest"
                      THEN [insert |-> 1, query |-> 0]
                      ELSE [insert |-> 0, query |-> 1]
          /\ store' = store]_vars

\* An ingest failed in the store with a record already stored
C5_Witness ==
    /\ exc = e_rejected
    /\ resp.status = 500
    /\ req.op = "ingest"
    /\ Len(store) > 0

\* C6: for every folder value given to list, the empty string and a key
\* outside the registry included, every returned record has that folder.
C6_ListFilterExact ==
    (ListAnswered /\ req.folder # None) =>
        \A i \in 1..Len(Items) : Items[i]["folder"] = req.folder

\* C7: for every integer limit, 0 and negative values included, list returns
\* at most limit records.
C7_AtMostLimit == ListAnswered => Len(Items) <= req.limit

\* C9: every record list returns carries its identifier as a plain string
\* under id, and holds neither the key _id nor any ObjectId.
C9_IdNormalized ==
    ListAnswered =>
        \A i \in 1..Len(Items) :
            /\ "id" \in DOMAIN Items[i]
            /\ IsPlainString(Items[i]["id"])
            /\ "_id" \notin DOMAIN Items[i]
            /\ \A k \in DOMAIN Items[i] : Items[i][k].t # "ObjectId"

C9_Witness == ListAnswered /\ Len(Items) = MaxStore

\* The tags of an ingested input, an absent list being the empty list
InputTags(payload) == IF payload.tags = None THEN PyList(<<>>) ELSE payload.tags

\* The record of the acknowledged ingest a is among the items
ReadBack(a, items) ==
    /\ IsPlainString(a.id)
    /\ Len(a.id.v) > 0
    /\ \E i \in 1..Len(items) :
          /\ "id" \in DOMAIN items[i]
          /\ items[i]["id"] = a.id
          /\ items[i]["title"] = a.payload.title
          /\ items[i]["content"] = a.payload.content
          /\ items[i]["modality"] = a.payload.modality
          /\ items[i]["source_url"] = a.payload.source_url
          /\ items[i]["image_data_url"] = a.payload.image_data_url
          /\ items[i]["tags"] = InputTags(a.payload)
          /\ items[i]["folder"] = a.folder

\* How many ingests into the folder of the k-th acknowledged ingest came before it
EarlierInFolder(k) == Cardinality({j \in 1..(k - 1) : acked[j].folder = acked[k].folder})

\* C8 as stated: after a successful ingest answered id i and folder f, a later
\* list of f with the default limit returns the record of id i with the input's
\* fields, however many ingests came in between.
C8_RoundTripAlways ==
    (ListAnswered /\ req.limit = DefaultLimit) =>
        \A k \in 1..Len(acked) :
            acked[k].folder = req.folder => ReadBack(acked[k], Items)

\* C8 as amended: the same, for an ingest that fewer than DefaultLimit successful
\* ingests into the same folder preceded.
C8_RoundTripWithinLimit ==
    (ListAnswered /\ req.limit = DefaultLimit) =>
        \A k \in 1..Len(acked) :
            (acked[k].folder = req.folder /\ EarlierInFolder(k) < DefaultLimit) =>
                ReadBack(acked[k], Items)

\* A list of tasks returned the full default limit, its last item being the
\* DefaultLimit-th ingest into tasks, with a later ingest into another folder
C8_Witness ==
    /\ ListAnswered
    /\ req.limit = DefaultLimit
    /\ req.folder = Str(w_tasks)
    /\ Len(Items) = DefaultLimit
    /\ \E k \in 1..Len(acked) :
          /\ acked[k].folder = Str(w_tasks)
          /\ EarlierInFolder(k) = DefaultLimit - 1
          /\ Items[DefaultLimit]["id"] = acked[k].id
          /\ \E j \in (k + 1)..Len(acked) : acked[j].folder = Str(w_inbox)

\* C10: a step changes the collection only by appending one record, that of a
\* successful ingest, with an id no stored record has; every stored record
\* stays as it is, a list or a failed ingest changes nothing, and every
\* successful ingest adds its record.
C10_WriteOnce ==
    [][/\ store' # store =>
             /\ Len(store') = Len(store) + 1
             /\ SubSeq(store', 1, Len(store)) = store
             /\ \A i \in 1..Len(store) : store[i]["_id"] # store'[Len(store')]["_id"]
             /\ req'.op = "ingest"
             /\ resp'.status = 200
             /\ resp'.body.id = PyStr(store'[Len(store')]["_id"])
             /\ Len(acked') = Len(acked) + 1
       /\ acked' # acked => store' # store]_vars

\* Two records are stored while a list and an ingest are inside their handlers
C10_Witness ==
    /\ Len(store) = MaxStore
    /\ \E r \in BagToSet(pending) : r.rq.op = "list"
    /\ \E r \in BagToSet(pending) : r.rq.op = "ingest"

====
